---- MODULE Spec2Model ----
(***************************************************************************)
(* Model of tourlogger-scraper (src/main.py): a one-shot process that      *)
(* fetches a water-temperature page, extracts today's value, builds a      *)
(* timestamp, PUTs the reading to a backend and alerts over Telegram when  *)
(* the pipeline reports a failure.                                         *)
(*                                                                         *)
(* Conventions.                                                            *)
(*  - A Python str is a sequence of text fragments (each fragment a TLA+    *)
(*    string); the texts that the code splits or parses are sequences of   *)
(*    single characters.  Concatenation is \o.                             *)
(*  - Optional[str] (os.getenv) is a record [set, val].                    *)
(*  - A float is a decimal [num, exp] meaning num * 10^-exp, kept in       *)
(*    canonical form (no trailing zero in the fraction); Optional[float]   *)
(*    adds the field isNone.                                               *)
(*  - Python indices are 0-based, TLA+ sequences 1-based: xs[i] in Python  *)
(*    is xs[i + 1] here.                                                   *)
(***************************************************************************)
EXTENDS Integers, Sequences, FiniteSets, TLC

VARIABLES
    UUID,                  \* module constant, line 21
    API_KEY,               \* module constant, line 22
    BACKEND_URL,           \* module constant, line 19
    BACKEND_PATH,          \* module constant, line 20
    pc,                    \* position of the process
    content,               \* main: fetched document, as its parse tree (lines 127, 133)
    temperature,           \* main: result of get_temperature (line 134)
    extraction,            \* what get_temperature did (node read, raise flag)
    now,                   \* the value datetime.now() returned (line 140)
    water_information,     \* main: (iso_time, temperature) (line 144)
    response,              \* main: first element of send_data_to_backend's result
    generated_backend_url, \* main: second element of send_data_to_backend's result
    result,                \* how main() ended: returned (success, message) or raised
    exitStatus,            \* process exit status, -1 while running
    gets,                  \* number of requests.get calls issued
    puts,                  \* requests.put calls issued, in order
    alerts,                \* Bot.send_message calls issued, in order
    TOKEN,                 \* environment variable TOKEN (read at line 166)
    TELEGRAM_CHATLIST,     \* environment variable TELEGRAM_CHATLIST (read at line 167)
    log                    \* error-level log records, in order

vars == <<UUID, API_KEY, BACKEND_URL, BACKEND_PATH, pc, content, temperature,
          extraction, now, water_information, response, generated_backend_url,
          result, exitStatus, gets, puts, alerts, TOKEN, TELEGRAM_CHATLIST, log>>

-----------------------------------------------------------------------------
(* Bounds of the model *)

MaxDt == 3
MaxDd == 2

-----------------------------------------------------------------------------
(* Strings *)

None == [set |-> FALSE, val |-> <<>>]
Str(s) == [set |-> TRUE, val |-> s]

\* Python truthiness of an Optional[str]: None and "" are falsy.
Truthy(o) == o.set /\ o.val /= <<>>

\* a or b
Or(a, b) == IF Truthy(a) THEN a ELSE b

\* str(o) as format() and f-strings render it
StrOf(o) == IF o.set THEN o.val ELSE <<"None">>

\* sub in s
Contains(sub, s) ==
    \E i \in 0..(Len(s) - Len(sub)) : SubSeq(s, i + 1, i + Len(sub)) = sub

RECURSIVE Flatten(_)
Flatten(ss) == IF ss = <<>> THEN <<>> ELSE Head(ss) \o Flatten(Tail(ss))

\* template.format(arg): every "{}" slot is replaced by str(arg)
Format(template, arg) ==
    Flatten([i \in 1..Len(template) |->
                IF template[i] = "{}" THEN StrOf(arg) ELSE <<template[i]>>])

\* sep.join(parts)
RECURSIVE Join(_, _)
Join(sep, parts) ==
    IF parts = <<>> THEN <<>>
    ELSE IF Len(parts) = 1 THEN parts[1]
    ELSE parts[1] \o sep \o Join(sep, Tail(parts))

\* s.split(sep) with an explicit one-character separator: every occurrence
\* of sep cuts, empty pieces are kept, the result is never empty.
RECURSIVE SplitOn(_, _)
SplitOn(s, sep) ==
    IF \A i \in 1..Len(s) : s[i] /= sep THEN <<s>>
    ELSE LET k == CHOOSE i \in 1..Len(s) : s[i] = sep /\ \A j \in 1..(i - 1) : s[j] /= sep
         IN <<SubSeq(s, 1, k - 1)>> \o SplitOn(SubSeq(s, k + 1, Len(s)), sep)

Whitespace == {" ", "\t", "\n"}

RECURSIVE LStrip(_)
LStrip(s) == IF s /= <<>> /\ Head(s) \in Whitespace THEN LStrip(Tail(s)) ELSE s

RECURSIVE RStrip(_)
RStrip(s) ==
    IF s /= <<>> /\ s[Len(s)] \in Whitespace THEN RStrip(SubSeq(s, 1, Len(s) - 1)) ELSE s

Strip(s) == RStrip(LStrip(s))

\* s.split() without argument: maximal runs of non-whitespace characters.
\* The code never calls it; C5 is stated with it.
RECURSIVE SplitWhitespace(_)
SplitWhitespace(s) ==
    LET t == LStrip(s)
    IN IF t = <<>> THEN <<>>
       ELSE IF \A i \in 1..Len(t) : t[i] \notin Whitespace THEN <<t>>
       ELSE LET k == CHOOSE i \in 1..Len(t) :
                        t[i] \in Whitespace /\ \A j \in 1..(i - 1) : t[j] \notin Whitespace
            IN <<SubSeq(t, 1, k - 1)>> \o SplitWhitespace(SubSeq(t, k + 1, Len(t)))

-----------------------------------------------------------------------------
(* Floats *)

Digits == {"0", "1", "2", "3", "4", "5", "6", "7", "8", "9"}

DigitVal(c) ==
    CASE c = "0" -> 0 [] c = "1" -> 1 [] c = "2" -> 2 [] c = "3" -> 3 [] c = "4" -> 4
      [] c = "5" -> 5 [] c = "6" -> 6 [] c = "7" -> 7 [] c = "8" -> 8 [] c = "9" -> 9

RECURSIVE DigitsVal(_)
DigitsVal(ds) ==
    IF ds = <<>> THEN 0 ELSE 10 * DigitsVal(SubSeq(ds, 1, Len(ds) - 1)) + DigitVal(ds[Len(ds)])

RECURSIVE Canonical(_, _)
Canonical(num, exp) ==
    IF exp > 0 /\ num % 10 = 0 THEN Canonical(num \div 10, exp - 1)
    ELSE [num |-> num, exp |-> exp]

NoFloat == [ok |-> FALSE, num |-> 0, exp |-> 0]

\* float(tok) on decimal literals: surrounding whitespace is ignored, then
\* an optional sign, digits, an optional point and digits; at least one
\* digit.  ok = FALSE stands for ValueError.
ParseFloat(tok) ==
    LET s    == Strip(tok)
        neg  == s /= <<>> /\ Head(s) = "-"
        body == IF s /= <<>> /\ Head(s) \in {"-", "+"} THEN Tail(s) ELSE s
        dots == {i \in 1..Len(body) : body[i] = "."}
        dot  == IF dots = {} THEN Len(body) + 1
                ELSE CHOOSE i \in dots : \A j \in dots : i <= j
        ip   == SubSeq(body, 1, dot - 1)
        fp   == SubSeq(body, dot + 1, Len(body))
        mag  == DigitsVal(ip \o fp)
        c    == Canonical(IF neg THEN 0 - mag ELSE mag, Len(fp))
    IN IF /\ Len(ip) + Len(fp) >= 1
          /\ \A i \in 1..Len(ip) : ip[i] \in Digits
          /\ \A i \in 1..Len(fp) : fp[i] \in Digits
       THEN [ok |-> TRUE, num |-> c.num, exp |-> c.exp]
       ELSE NoFloat

NoneFloat == [isNone |-> TRUE, num |-> 0, exp |-> 0]
Float(num, exp) == [isNone |-> FALSE, num |-> num, exp |-> exp]

\* a variant that tests the value against 0 only
NotTemperature_ZeroOnly(t) == ~t.isNone /\ t.num = 0

\* "not temperature" (line 135): None and 0.0 are falsy.
NotTemperature(t) == t.isNone \/ t.num = 0

RECURSIVE Pow10(_)
Pow10(n) == IF n = 0 THEN 1 ELSE 10 * Pow10(n - 1)

Abs(n) == IF n < 0 THEN 0 - n ELSE n

RECURSIVE PadDigits(_, _)
PadDigits(n, width) ==
    IF width = 0 THEN <<>> ELSE PadDigits(n \div 10, width - 1) \o <<ToString(n % 10)>>

\* repr(x) of a float: sign, integer part, point, fraction ("18.4", "19.0")
FloatRepr(t) ==
    IF t.isNone THEN <<"None">>
    ELSE (IF t.num < 0 THEN <<"-">> ELSE <<>>)
         \o <<ToString(Abs(t.num) \div Pow10(t.exp)), ".">>
         \o (IF t.exp = 0 THEN <<"0">> ELSE PadDigits(Abs(t.num) % Pow10(t.exp), t.exp))

-----------------------------------------------------------------------------
(* get_temperature *)

HEUTE == <<"H", "e", "u", "t", "e">>

NoTable == [hasTable |-> FALSE, dt |-> <<>>, dd |-> <<>>]

\* indices idx with "Heute" in header_elements[idx].text (line 84)
TodayMatches(header_elements) ==
    {idx \in 0..(Len(header_elements) - 1) : Contains(HEUTE, header_elements[idx + 1])}

TodayIndexLast(header_elements) ==
    CHOOSE i \in TodayMatches(header_elements) :
        \A j \in TodayMatches(header_elements) : j <= i

\* [...][0]: the first match (the caller handles the empty list, IndexError)
TodayIndex(header_elements) ==
    CHOOSE i \in TodayMatches(header_elements) :
        \A j \in TodayMatches(header_elements) : i <= j

\* what one call of get_temperature does: the value returned, whether an
\* exception left the function, the 0-based dd index it read (-1: none),
\* and the error it logged; done tells a call from no call yet.
Extraction(value, read, logged) ==
    [done |-> TRUE, raised |-> FALSE, value |-> value, read |-> read, logged |-> logged]

NoExtraction ==
    [done |-> FALSE, raised |-> FALSE, value |-> NoneFloat, read |-> -1, logged |-> ""]

get_temperature(html) ==
    IF ~html.hasTable
    THEN Extraction(NoneFloat, -1, "table not found in html")
    ELSE LET header_elements == html.dt
         IN IF header_elements = <<>> \/ Len(header_elements) < 2
            THEN Extraction(NoneFloat, -1, "tr not found or len(dt) < 2")
            ELSE IF TodayMatches(header_elements) = {}
            THEN \* [][0] raises IndexError, caught at line 85
                 Extraction(NoneFloat, -1, "no dt element with Heute text has been found")
            ELSE LET today_index    == TodayIndex(header_elements)
                     value_elements == html.dd
                 IN IF value_elements = <<>> \/ Len(value_elements) < today_index + 1
                    THEN Extraction(NoneFloat, -1, "dd not found or len(dd) < 2")
                    ELSE LET text   == value_elements[today_index + 1]
                             token  == SplitOn(text, " ")[1]
                             parsed == ParseFloat(token)
                         IN IF parsed.ok
                            THEN Extraction(Float(parsed.num, parsed.exp), today_index, "")
                            ELSE \* ValueError, caught at line 96
                                 Extraction(NoneFloat, today_index,
                                            "index or value error while accessing temperature")

-----------------------------------------------------------------------------
(* Timestamp: lines 140-143 *)

\* Europe/Berlin in 2024, by day of the year: summer time begins on day 91
\* (31 March) at 02:00 local time and ends on day 301 (27 October) at 03:00.
DstStartDay == 91
DstEndDay == 301

\* .replace(hour=0, minute=0, second=0): the microsecond is not replaced
Replace(t) == [t EXCEPT !.hour = 0, !.minute = 0, !.second = 0]

\* utcoffset in hours that localize (pytz, is_dst=False) gives a naive time
BerlinOffset(t) ==
    IF /\ (t.day > DstStartDay \/ (t.day = DstStartDay /\ t.hour >= 3))
       /\ (t.day < DstEndDay \/ (t.day = DstEndDay /\ t.hour < 2))
    THEN 2 ELSE 1

Localize(t) ==
    [day |-> t.day, hour |-> t.hour, minute |-> t.minute, second |-> t.second,
     microsecond |-> t.microsecond, offset |-> BerlinOffset(t)]

\* .astimezone(pytz.utc)
AsUtc(t) ==
    LET hours == t.day * 24 + t.hour - t.offset
    IN [day |-> hours \div 24, hour |-> hours % 24, minute |-> t.minute,
        second |-> t.second, microsecond |-> t.microsecond, offset |-> 0]

\* .isoformat() of an aware datetime in UTC; the date is written as the day
\* of the year.  The fraction is printed only when microsecond is not 0.
IsoFormat(t) ==
    <<"2024-">> \o PadDigits(t.day, 3) \o <<"T">> \o PadDigits(t.hour, 2) \o <<":">>
    \o PadDigits(t.minute, 2) \o <<":">> \o PadDigits(t.second, 2)
    \o (IF t.microsecond = 0 THEN <<>> ELSE <<".">> \o PadDigits(t.microsecond, 6))
    \o <<"+00:00">>

iso_time_of(t) == IsoFormat(AsUtc(Localize(Replace(t))))

-----------------------------------------------------------------------------
(* send_data_to_backend *)

NoResponse == [isNone |-> TRUE, ok |-> FALSE, content |-> <<>>]
Response(ok, body) == [isNone |-> FALSE, ok |-> ok, content |-> body]

\* what requests.put can do: answer with a success status, answer with an
\* error status, raise one of the caught connection-level errors, or raise
\* another requests exception (a read timeout), which is not caught.
PutOutcomes == {"ok", "rejected", "ConnectionError", "ReadTimeout"}

\* "not response or not response.ok" (line 148): a Response is falsy when
\* its status is an error status.
NotResponse(r) == r.isNone \/ ~r.ok

APPROVE_MANUALLY == <<"water_temperature is <= 0, please approve this manually.">>

\* "/".join([BACKEND_URL, BACKEND_PATH.format(UUID)]), lines 104-105
BackendUrl(base, template, uuid) == Join(<<"/">>, <<base, Format(template, uuid)>>)

PutCall(url, info, key) ==
    [url |-> url,
     json |-> [temperature |-> info.temperature, time |-> info.time],
     authorization |-> <<"Bearer ">> \o StrOf(key)]

Sent(raised, resp, second, calls, logged) ==
    [raised |-> raised, response |-> resp, second |-> second, puts |-> calls,
     logged |-> logged]

\* a variant that retries the PUT once after a connection error
send_data_to_backend_Retry(info, base, template, uuid, key, outcome) ==
    LET url  == BackendUrl(base, template, uuid)
        call == PutCall(url, info, key)
    IN IF info.temperature.isNone THEN Sent(TRUE, NoResponse, <<>>, <<>>, "")
       ELSE IF info.temperature.num <= 0 THEN Sent(FALSE, NoResponse, APPROVE_MANUALLY, <<>>, "")
       ELSE CASE outcome = "ok" -> Sent(FALSE, Response(TRUE, <<"b'", "ok", "'">>), url, <<call>>, "")
              [] outcome = "rejected" ->
                    Sent(FALSE, Response(FALSE, <<"b'", "rejected", "'">>), url, <<call>>, "")
              [] outcome = "ConnectionError" ->
                    Sent(FALSE, NoResponse, url, <<call, call>>, "Error while connecting to backend")
              [] OTHER -> Sent(TRUE, NoResponse, <<>>, <<call>>, "")

\* a variant whose plausibility guard is "< 0"
send_data_to_backend_Strict(info, base, template, uuid, key, outcome) ==
    LET url  == BackendUrl(base, template, uuid)
        call == PutCall(url, info, key)
    IN IF info.temperature.isNone THEN Sent(TRUE, NoResponse, <<>>, <<>>, "")
       ELSE IF info.temperature.num < 0 THEN Sent(FALSE, NoResponse, APPROVE_MANUALLY, <<>>, "")
       ELSE CASE outcome = "ok" -> Sent(FALSE, Response(TRUE, <<"b'", "ok", "'">>), url, <<call>>, "")
              [] outcome = "rejected" ->
                    Sent(FALSE, Response(FALSE, <<"b'", "rejected", "'">>), url, <<call>>, "")
              [] outcome = "ConnectionError" ->
                    Sent(FALSE, NoResponse, url, <<call>>, "Error while connecting to backend")
              [] OTHER -> Sent(TRUE, NoResponse, <<>>, <<call>>, "")

\* One call of send_data_to_backend(water_information) with the module
\* constants base, template, uuid, key, when requests.put behaves as outcome.
\* raised: an exception left the function (None <= 0 is a TypeError; an
\* exception of requests.put outside the except clause propagates).
send_data_to_backend(info, base, template, uuid, key, outcome) ==
    LET url  == BackendUrl(base, template, uuid)
        call == PutCall(url, info, key)
    IN IF info.temperature.isNone THEN Sent(TRUE, NoResponse, <<>>, <<>>, "")
       ELSE IF info.temperature.num <= 0 THEN Sent(FALSE, NoResponse, APPROVE_MANUALLY, <<>>, "")
       ELSE CASE outcome = "ok" -> Sent(FALSE, Response(TRUE, <<"b'", "ok", "'">>), url, <<call>>, "")
              [] outcome = "rejected" ->
                    Sent(FALSE, Response(FALSE, <<"b'", "rejected", "'">>), url, <<call>>, "")
              [] outcome = "ConnectionError" ->
                    Sent(FALSE, NoResponse, url, <<call>>, "Error while connecting to backend")
              [] OTHER -> Sent(TRUE, NoResponse, <<>>, <<call>>, "")

-----------------------------------------------------------------------------
(* send_telegram_alert *)

DEFAULT_CHATLIST == <<"1", "3", "9", "6", "5", "6", "4", "2", "8">>

\* the log records written and the messages sent by one call
send_telegram_alert(message, tok, chats) ==
    IF ~Truthy(tok)
    THEN [logged |-> <<"TOKEN not defined in environment, skip sending telegram message">>,
          sent |-> <<>>]
    ELSE [logged |-> IF chats = <<>> THEN <<"chatlist is empty (env var: TELEGRAM_CHATLIST)">>
                     ELSE <<>>,
          sent |-> [i \in 1..Len(chats) |->
                       [chat_id |-> chats[i],
                        text |-> <<"Error while executing: ">> \o message]]]

-----------------------------------------------------------------------------
(* Inputs: the environment, the fetched page, the clock *)

EnvTownUuid == {None, Str(<<>>), Str(<<"uuid-1">>)}
EnvCuxhavenUuid == {None, Str(<<"uuid-2">>)}
EnvApiKey == {None, Str(<<>>), Str(<<"key">>)}
EnvBackendUrl == {None, Str(<<"https://backend.example">>)}
EnvBackendPath == {None, Str(<<"v2/", "{}">>)}
EnvToken == {None, Str(<<"token">>)}
EnvChatlist == {None, Str(<<"1", ",", "2">>), Str(<<"7", ",", "7">>)}

DEFAULT_BACKEND_URL == <<"http://api:80">>
DEFAULT_BACKEND_PATH == <<"lake/", "{}", "/temperature">>

LabelTexts ==
    { <<"G", "e", "s", "t", "e", "r", "n">>,
      <<"H", "e", "u", "t", "e", ",", " ", "1", "2", ".">> }

ValueTexts ==
    { <<"1", "8", ".", "4", " ", "C">>,
      <<"1", "8", ".", "4", "\t", "C">>,
      <<" ", "1", "9", " ", "C">>,
      <<"0", " ", "C">>,
      <<"-", "1", ".", "5", " ", "C">>,
      <<"n", "/", "a">> }

SeqsUpTo(S, n) == UNION {[1..k -> S] : k \in 0..n}

Documents ==
    {NoTable} \cup
    {[hasTable |-> TRUE, dt |-> h, dd |-> v] :
        h \in SeqsUpTo(LabelTexts, MaxDt), v \in SeqsUpTo(ValueTexts, MaxDd)}

Nows ==
    [day : {DstStartDay, DstStartDay + 1, DstEndDay, DstEndDay + 1},
     hour : {0, 2, 13, 23}, minute : {0, 59}, second : {0, 59},
     microsecond : {0, 123456}]

NoNow == [day |-> 0, hour |-> 0, minute |-> 0, second |-> 0, microsecond |-> 0]
NoInfo == [time |-> <<>>, temperature |-> NoneFloat]

-----------------------------------------------------------------------------
(* The process *)

Running == [kind |-> "running", success |-> FALSE, message |-> <<>>]
Returned(success, message) == [kind |-> "returned", success |-> success, message |-> message]
Raised(exception) == [kind |-> "raised", success |-> FALSE, message |-> <<exception>>]

COULDNT_RETRIEVE_TEMPERATURE == <<"Couldn't retrieve temperature">>

\* str((iso_time, temperature)) inside the f-string of line 149
InfoRepr(info) ==
    <<"('">> \o info.time \o <<"', ">> \o FloatRepr(info.temperature) \o <<")">>

FailedToPut(info, url, resp) ==
    <<"Failed to put data (">> \o InfoRepr(info) \o <<") to backend: ">> \o url
    \o <<"\n">> \o resp.content

\* a variant of the module-level check without the API_KEY branch
ConfigError_NoKey(uuid, key) ==
    IF ~Truthy(uuid) THEN "TOWN_UUID not defined in environment" ELSE ""

\* lines 158-161: the error logged when the configuration is incomplete,
\* "" when the pipeline may run
ConfigError(uuid, key) ==
    IF ~Truthy(uuid) THEN "TOWN_UUID not defined in environment"
    ELSE IF ~Truthy(key) THEN "API_KEY not defined in environment"
    ELSE ""

EnvInit ==
    /\ \E tu \in EnvTownUuid, cu \in EnvCuxhavenUuid : UUID = Or(tu, cu)
    /\ API_KEY \in EnvApiKey
    /\ \E e \in EnvBackendUrl : BACKEND_URL = Or(e, Str(DEFAULT_BACKEND_URL)).val
    /\ \E e \in EnvBackendPath : BACKEND_PATH = Or(e, Str(DEFAULT_BACKEND_PATH)).val
    /\ TOKEN \in EnvToken
    /\ TELEGRAM_CHATLIST \in EnvChatlist

Init ==
    /\ EnvInit
    /\ pc = "module"
    /\ content = NoTable
    /\ temperature = NoneFloat
    /\ extraction = NoExtraction
    /\ now = NoNow
    /\ water_information = NoInfo
    /\ response = NoResponse
    /\ generated_backend_url = <<>>
    /\ result = Running
    /\ exitStatus = -1
    /\ gets = 0
    /\ puts = <<>>
    /\ alerts = <<>>
    /\ log = <<>>

env == <<UUID, API_KEY, BACKEND_URL, BACKEND_PATH, TOKEN, TELEGRAM_CHATLIST>>

\* an exception that nothing catches ends the process with a traceback and
\* exit status 1; no further line of the module runs
Crash(exception) ==
    /\ result' = Raised(exception)
    /\ exitStatus' = 1
    /\ pc' = "exited"

\* lines 158-162
ModuleStart ==
    /\ pc = "module"
    /\ IF ConfigError(UUID, API_KEY) /= ""
       THEN /\ log' = Append(log, ConfigError(UUID, API_KEY))
            /\ pc' = "exited"
            /\ exitStatus' = 0
       ELSE /\ pc' = "get_website"
            /\ UNCHANGED <<log, exitStatus>>
    /\ UNCHANGED <<env, content, temperature, extraction, now, water_information,
                   response, generated_backend_url, result, gets, puts, alerts>>

\* line 127, get_website answers: the document is kept as its parse tree,
\* success is always True, so the branch of lines 128-131 is never taken
GetWebsite ==
    /\ pc = "get_website"
    /\ \E doc \in Documents : content' = doc
    /\ gets' = gets + 1
    /\ pc' = "extract"
    /\ UNCHANGED <<env, temperature, extraction, now, water_information, response,
                   generated_backend_url, result, exitStatus, puts, alerts, log>>

\* line 127, requests.get raises: nothing catches it
GetWebsiteRaises ==
    /\ pc = "get_website"
    /\ gets' = gets + 1
    /\ Crash("requests.get")
    /\ UNCHANGED <<env, content, temperature, extraction, now, water_information,
                   response, generated_backend_url, puts, alerts, log>>

\* lines 133-134
Extract ==
    /\ pc = "extract"
    /\ extraction' = get_temperature(content)
    /\ temperature' = extraction'.value
    /\ log' = IF extraction'.logged = "" THEN log ELSE Append(log, extraction'.logged)
    /\ pc' = "check_temperature"
    /\ UNCHANGED <<env, content, now, water_information, response,
                   generated_backend_url, result, exitStatus, gets, puts, alerts>>

\* lines 135-138; content and soup are not read after line 134
CheckTemperature ==
    /\ pc = "check_temperature"
    /\ content' = NoTable
    /\ IF NotTemperature(temperature)
       THEN /\ result' = Returned(FALSE, COULDNT_RETRIEVE_TEMPERATURE)
            /\ log' = Append(log, "Couldn't retrieve temperature")
            /\ pc' = "after_main"
       ELSE /\ pc' = "build_timestamp"
            /\ UNCHANGED <<result, log>>
    /\ UNCHANGED <<env, temperature, extraction, now, water_information, response,
                   generated_backend_url, exitStatus, gets, puts, alerts>>

\* lines 140-144
BuildTimestamp ==
    /\ pc = "build_timestamp"
    /\ \E t \in Nows :
          /\ now' = t
          /\ water_information' = [time |-> iso_time_of(t), temperature |-> temperature]
    /\ pc' = "send"
    /\ UNCHANGED <<env, content, temperature, extraction, response,
                   generated_backend_url, result, exitStatus, gets, puts, alerts, log>>

\* line 146
SendData ==
    /\ pc = "send"
    /\ \E outcome \in PutOutcomes :
          LET r == send_data_to_backend(water_information, BACKEND_URL, BACKEND_PATH,
                                        UUID, API_KEY, outcome)
          IN /\ puts' = puts \o r.puts
             /\ log' = IF r.logged = "" THEN log ELSE Append(log, r.logged)
             /\ IF r.raised
                THEN /\ Crash("send_data_to_backend")
                     /\ UNCHANGED <<response, generated_backend_url>>
                ELSE /\ response' = r.response
                     /\ generated_backend_url' = r.second
                     /\ pc' = "check_response"
                     /\ UNCHANGED <<result, exitStatus>>
    /\ UNCHANGED <<env, content, temperature, extraction, now, water_information,
                   gets, alerts>>

\* lines 148-153: the f-string of line 149 reads response.content, which
\* raises AttributeError when response is None
CheckResponse ==
    /\ pc = "check_response"
    /\ IF NotResponse(response)
       THEN IF response.isNone
            THEN /\ Crash("AttributeError")
                 /\ UNCHANGED log
            ELSE /\ result' = Returned(FALSE, FailedToPut(water_information,
                                                          generated_backend_url, response))
                 /\ log' = Append(log, "Failed to put data")
                 /\ pc' = "after_main"
                 /\ UNCHANGED exitStatus
       ELSE /\ result' = Returned(TRUE, <<>>)
            /\ pc' = "after_main"
            /\ UNCHANGED <<log, exitStatus>>
    /\ UNCHANGED <<env, content, temperature, extraction, now, water_information,
                   response, generated_backend_url, gets, puts, alerts>>

\* (os.getenv("TELEGRAM_CHATLIST") or "139656428").split(","), lines 167-168
Chatlist(chats) == SplitOn(Or(chats, Str(DEFAULT_CHATLIST)).val, ",")

\* lines 164-169: main returned a failure
AlertAndExit ==
    /\ pc = "after_main"
    /\ ~result.success
    /\ LET a == send_telegram_alert(result.message, TOKEN, Chatlist(TELEGRAM_CHATLIST))
       IN /\ alerts' = alerts \o a.sent
          /\ log' = Append(log, "Something went wrong") \o a.logged
    /\ exitStatus' = 1
    /\ pc' = "exited"
    /\ UNCHANGED <<env, content, temperature, extraction, now, water_information,
                   response, generated_backend_url, result, gets, puts>>

\* line 164 with success = True: the module ends
ExitSuccess ==
    /\ pc = "after_main"
    /\ result.success
    /\ exitStatus' = 0
    /\ pc' = "exited"
    /\ UNCHANGED <<env, content, temperature, extraction, now, water_information,
                   response, generated_backend_url, result, gets, puts, alerts, log>>

Next ==
    \/ ModuleStart
    \/ GetWebsite
    \/ GetWebsiteRaises
    \/ Extract
    \/ CheckTemperature
    \/ BuildTimestamp
    \/ SendData
    \/ CheckResponse
    \/ AlertAndExit
    \/ ExitSuccess

Spec == Init /\ [][Next]_vars

-----------------------------------------------------------------------------
(* send_data_to_backend called on its own, with any reading *)

UnitTemperatures == {Float(-15, 1), Float(0, 0), Float(184, 1), Float(19, 0)}

UnitReadings ==
    {[time |-> iso_time_of(t), temperature |-> v] : t \in Nows, v \in UnitTemperatures}

InitSubmit ==
    /\ EnvInit
    /\ pc = "call"
    /\ water_information \in UnitReadings
    /\ content = NoTable
    /\ temperature = NoneFloat
    /\ extraction = NoExtraction
    /\ now = NoNow
    /\ response = NoResponse
    /\ generated_backend_url = <<>>
    /\ result = Running
    /\ exitStatus = -1
    /\ gets = 0
    /\ puts = <<>>
    /\ alerts = <<>>
    /\ log = <<>>

CallSendDataToBackend ==
    /\ pc = "call"
    /\ \E outcome \in PutOutcomes :
          LET r == send_data_to_backend(water_information, BACKEND_URL, BACKEND_PATH,
                                        UUID, API_KEY, outcome)
          IN /\ puts' = puts \o r.puts
             /\ log' = IF r.logged = "" THEN log ELSE Append(log, r.logged)
             /\ IF r.raised
                THEN /\ Crash("send_data_to_backend")
                     /\ UNCHANGED <<response, generated_backend_url>>
                ELSE /\ response' = r.response
                     /\ generated_backend_url' = r.second
                     /\ pc' = "called"
                     /\ UNCHANGED <<result, exitStatus>>
    /\ UNCHANGED <<env, content, temperature, extraction, now, water_information,
                   gets, alerts>>

NextSubmit == CallSendDataToBackend

SpecSubmit == InitSubmit /\ [][NextSubmit]_vars

-----------------------------------------------------------------------------
(* Claims *)

MainEnded == pc \in {"after_main", "exited"}

\* the URL line 105 builds
TargetUrl == BACKEND_URL \o <<"/">> \o Format(BACKEND_PATH, UUID)

\* requests.put was called and raised a caught connection error, or the
\* backend answered with an error status
ConnectionFailed == puts /= <<>> /\ response.isNone /\ generated_backend_url = TargetUrl
Rejected == puts /= <<>> /\ ~response.isNone /\ ~response.ok

\* C1: when the fetch and the extraction succeed with a temperature > 0 and
\* the backend step fails (connection-level error or non-success answer),
\* main() does not raise and returns (False, message) with the target URL
\* in the message.
C1_BackendFailureIsReturned ==
    (pc = "exited" /\ (ConnectionFailed \/ Rejected))
        => /\ result.kind = "returned"
           /\ ~result.success
           /\ Contains(TargetUrl, result.message)

ExtractedNone == extraction.done /\ temperature.isNone
ExtractedNonPositive == extraction.done /\ ~temperature.isNone /\ temperature.num <= 0
ExtractedPositive == extraction.done /\ ~temperature.isNone /\ temperature.num > 0

Recipients == Chatlist(TELEGRAM_CHATLIST)

\* C2: with the configuration and the alert token present, a run that ends
\* in a recoverable failure (extraction null, value <= 0, backend connection
\* failure, backend non-success answer) sends exactly one notification per
\* configured recipient and exits with status 1; a successful run sends no
\* notification and exits with status 0.
C2_FailureAlertsEveryRecipient ==
    (pc = "exited" /\ Truthy(UUID) /\ Truthy(API_KEY) /\ Truthy(TOKEN))
        => /\ (ExtractedNone \/ ExtractedNonPositive \/ ConnectionFailed \/ Rejected)
                => /\ Len(alerts) = Len(Recipients)
                   /\ \A i \in 1..Len(alerts) : alerts[i].chat_id = Recipients[i]
                   /\ exitStatus = 1
           /\ (result.kind = "returned" /\ result.success)
                => alerts = <<>> /\ exitStatus = 0

\* C3: send_data_to_backend called with a temperature that is 0 or negative
\* returns (None, message), the message being the manual-approval
\* instruction and not the target URL, and issues no PUT.
C3_NonPositiveIsNotSent ==
    (pc /= "call" /\ water_information.temperature.num <= 0)
        => /\ result.kind /= "raised"
           /\ response.isNone
           /\ generated_backend_url = <<"water_temperature is <= 0, please approve this manually.">>
           /\ generated_backend_url /= TargetUrl
           /\ puts = <<>>

C3_Witness ==
    /\ pc = "called"
    /\ water_information.temperature = Float(0, 0)
    /\ response.isNone
    /\ puts = <<>>

\* 1-based positions of the dt labels of the fetched page that contain "Heute"
HeuteLabels == {i \in 1..Len(content.dt) : Contains(HEUTE, content.dt[i])}

\* the page lacks the structure get_temperature needs
StructuralMiss ==
    \/ ~content.hasTable
    \/ Len(content.dt) < 2
    \/ HeuteLabels = {}
    \/ \E i \in HeuteLabels : (\A j \in HeuteLabels : i <= j) /\ Len(content.dd) < i

\* C4: get_temperature never raises; it returns None without reading a
\* value when the dl container is absent, when there are fewer than 2 dt
\* labels, when no dt label contains "Heute", or when there are fewer dd
\* values than today_index + 1; otherwise the value it reads is the dd at
\* the position of the first dt label that contains "Heute".
C4_StructureDecidesTheNodeRead ==
    pc = "check_temperature"
        => /\ ~extraction.raised
           /\ IF StructuralMiss
              THEN temperature.isNone /\ extraction.read = -1
              ELSE /\ extraction.read + 1 \in HeuteLabels
                   /\ \A j \in HeuteLabels : extraction.read + 1 <= j

C4_Witness ==
    /\ pc = "check_temperature"
    /\ HeuteLabels = {2, 3}
    /\ extraction.read = 1
    /\ ~temperature.isNone

\* C5: when the first whitespace-delimited token of today's value text is
\* numeric, whatever whitespace separates or precedes the tokens,
\* get_temperature returns exactly that number; when that token is absent
\* or not a number it returns None.
C5_FirstWhitespaceTokenIsReturned ==
    (pc = "check_temperature" /\ extraction.read >= 0)
        => LET tokens == SplitWhitespace(content.dd[extraction.read + 1])
               parsed == IF tokens = <<>> THEN NoFloat ELSE ParseFloat(tokens[1])
           IN IF parsed.ok THEN temperature = Float(parsed.num, parsed.exp)
              ELSE temperature.isNone

Midnight(day) == [day |-> day, hour |-> 0, minute |-> 0, second |-> 0, microsecond |-> 0]

\* C6: whatever the wall-clock time of the run (hour, minute, second,
\* fraction of a second), the timestamp of the reading is midnight of the
\* run's date in Europe/Berlin, converted to UTC, with no sub-second part.
C6_TimestampIsMidnight ==
    water_information /= NoInfo
        => water_information.time = IsoFormat(AsUtc(Localize(Midnight(now.day))))

\* C7: in a run where the fetch succeeds and the extraction returns None,
\* no PUT is ever issued and main() returns
\* (False, "Couldn't retrieve temperature").
C7_NoTemperatureEndsTheRun ==
    ExtractedNone
        => /\ puts = <<>>
           /\ gets = 1
           /\ MainEnded => result = Returned(FALSE, <<"Couldn't retrieve temperature">>)

C7_Witness ==
    /\ pc = "exited"
    /\ ExtractedNone
    /\ extraction.logged = "no dt element with Heute text has been found"
    /\ result = Returned(FALSE, <<"Couldn't retrieve temperature">>)
    /\ puts = <<>>

\* C8: when the location identifier or the API key is absent, the
\* pipeline never runs: no GET, no PUT, no notification; one error is
\* logged and the process ends with exit status 0.
C8_MissingConfigurationSkipsTheRun ==
    (~Truthy(UUID) \/ ~Truthy(API_KEY))
        => /\ gets = 0 /\ puts = <<>> /\ alerts = <<>>
           /\ pc \in {"module", "exited"}
           /\ result = Running
           /\ pc = "exited" => exitStatus = 0 /\ Len(log) = 1

C8_Witness ==
    /\ pc = "exited"
    /\ Truthy(UUID)
    /\ ~Truthy(API_KEY)
    /\ exitStatus = 0
    /\ log = <<"API_KEY not defined in environment">>

\* C9: a run issues at most one PUT, and only after the fetch and the
\* extraction; when the extracted temperature t is > 0 exactly one PUT is
\* issued, to the URL built from base, path template and identifier, with
\* the body {temperature: t, time: the run's timestamp}; when the backend
\* answers OK main() returns (True, "").
C9_ExactlyOnePut ==
    /\ Len(puts) <= 1
    /\ puts /= <<>> => gets = 1 /\ extraction.done /\ water_information /= NoInfo
    /\ (ExtractedPositive /\ pc \in {"check_response", "after_main", "exited"})
          => /\ Len(puts) = 1
             /\ puts[1].url = TargetUrl
             /\ puts[1].json = [temperature |-> temperature, time |-> iso_time_of(now)]
    /\ (MainEnded /\ puts /= <<>> /\ ~response.isNone /\ response.ok)
          => result = Returned(TRUE, <<>>)

C9_Witness ==
    /\ pc = "exited"
    /\ ExtractedPositive
    /\ Len(puts) = 1
    /\ response.ok
    /\ result = Returned(TRUE, <<>>)
    /\ exitStatus = 0

\* C10: in a run where today's extracted temperature is 0 or negative, no
\* PUT is issued and main() returns (False, message), the message saying
\* that the value needs manual approval.
C10_NonPositiveIsReported ==
    (pc = "exited" /\ ExtractedNonPositive)
        => /\ puts = <<>>
           /\ result.kind = "returned"
           /\ ~result.success
           /\ Contains(APPROVE_MANUALLY, result.message)

====
